---------------------------- MODULE Spec2Model ----------------------------
(***************************************************************************)
(* Model of package ja3 (github.com/gospider007/ja3).                      *)
(*                                                                         *)
(* The shared state is Client.specErrData, a sync.Map from server name to  *)
(* a *specErr record holding a set of rejected curve/group ids.  The       *)
(* records live on the heap: the map stores pointers, and two goroutines   *)
(* may hold pointers to different records of the same server name.         *)
(*                                                                         *)
(* Every goroutine is a process.  A step of a process is one access to the *)
(* shared state (sync.Map Load/Store, kinds.Set Has/Add/Len, each atomic   *)
(* in its library) or one call of the external TLS engine, together with   *)
(* the local computation that follows it.                                  *)
(***************************************************************************)
EXTENDS Integers, Sequences, FiniteSets, TLC

(* ---------------------------- bounds ----------------------------------- *)
NProc == 2          \* goroutines running concurrently
MaxCalls == 2       \* direct registry calls a test goroutine makes
MaxAlpn == 3        \* longest ALPN protocol list handed to createSpecWithSpec

(* ------------------------- program constants --------------------------- *)
Uint16 == 65536     \* width of the uint16 conversion in setSpecErrWithError

ProcSet == 1..NProc
Keys == {"example.com", "other.net"}
Groups == {23, 24, 29}
Nil == 0

(* Errors of the external engine.  The text the controller matches is      *)
(* "unsupported Curve in KeyShareExtension: CurveID(N)": an error is the    *)
(* pair of its shape and the decimal number N written in it.               *)
NoErr == [kind |-> "nil", n |-> 0]
CurveErr(n) == [kind |-> "unsupported Curve in KeyShareExtension: CurveID", n |-> n]
OtherErr == [kind |-> "other", n |-> 0]

(* utls.ClientHelloSpec.Extensions: an ordered list of extensions, each a  *)
(* type tag and its payload list.                                          *)
KeyShareExt(l) == [type |-> "KeyShare", list |-> l]
CurvesExt(l) == [type |-> "SupportedCurves", list |-> l]
ALPNExt(l) == [type |-> "ALPN", list |-> l]
SNIExt == [type |-> "SNI", list |-> <<>>]

(* The ClientHello templates callers hand to Client.                       *)
Templates ==
  { <<ALPNExt(<<"h2", "http/1.1">>), CurvesExt(<<23, 24, 29>>), KeyShareExt(<<23, 24, 29>>)>>,
    <<SNIExt, KeyShareExt(<<24>>), CurvesExt(<<24>>)>>,
    <<CurvesExt(<<29, 24>>), KeyShareExt(<<29>>)>>,
    <<SNIExt, KeyShareExt(<<24, 23>>)>> }

VARIABLES
  specErrData,   \* Client.specErrData: server name -> pointer to a specErr, or Nil
  heap,          \* the allocated specErr records: pointer -> KeyShareExtension set
  pc,            \* where each goroutine stands
  serverName,    \* the key argument of the running call
  spec,          \* the goroutine's own ClientHelloSpec (its Extensions)
  errData,       \* local: the pointer Load returned
  value,         \* local: the uint16 handed to setSpecErrWithKeyShareExtension
  csChange,      \* local: changeSpec's result variable
  idx,           \* local: position of changeSpec's loop over the extensions
  site,          \* which call site the running helper returns to
  err,           \* local: the last error of the engine
  ret,           \* what Client returned: (utlsConn non-nil?, err)
  applyCount,    \* number of ApplyPreset calls of the running Client call
  hist,          \* per test goroutine: the completed direct registry calls
  call,          \* the pure function under test and its arguments
  stage,         \* how many functions have been applied to the arguments
  alpn,          \* the ClientHelloSpec createSpecWithSpec returned
  fp,            \* the fingerprint string: Fp's result or the caller's string
  h2ja3Spec,     \* what CreateH2SpecWithStr returned: (H2Spec, err)
  fp2            \* Fp of the decoded H2Spec

\* the state of the functions that do not touch the Client
pure == <<call, stage, alpn, fp, h2ja3Spec, fp2>>

\* the state of the Client and of the goroutines calling it
client == <<specErrData, heap, pc, serverName, spec, errData, value,
            csChange, idx, site, err, ret, applyCount, hist>>

vars == <<client, pure>>

shared == <<specErrData, heap>>

NoRet == [conn |-> FALSE, err |-> NoErr, line |-> 0]

(* ErrorMemory(D): the set the registry holds for server name D.           *)
Mem(d) == IF specErrData[d] = Nil THEN {} ELSE heap[specErrData[d]]

(* ------------------------ createSpecWithSpec --------------------------- *)
RECURSIVE IndexFrom(_, _, _)
IndexFrom(s, x, i) ==
  IF i > Len(s) THEN 0 ELSE IF s[i] = x THEN i ELSE IndexFrom(s, x, i + 1)

\* slices.Index: the first position of x in s, 0 when absent
Index(s, x) == IndexFrom(s, x, 1)

\* slices.Delete(s, i, i+1)
Delete(s, i) == SubSeq(s, 1, i - 1) \o SubSeq(s, i + 1, Len(s))

\* slices.Contains
Contains(s, x) == Index(s, x) # 0

\* (mutant) the HTTP/3 identifier is added to the list
H3Alpn_Append(l) == Append(l, "h3")

\* line 98: the list becomes []string{http3.NextProtoH3}
H3Alpn(l) == <<"h3">>

H1Alpn(l) ==
  LET d == IF Index(l, "h2") # 0 THEN Delete(l, Index(l, "h2")) ELSE l
  IN IF ~Contains(d, "http/1.1") THEN <<"http/1.1">> \o d ELSE d

RECURSIVE FirstOfType(_, _, _)
FirstOfType(exts, ty, i) ==
  IF i > Len(exts) THEN 0
  ELSE IF exts[i].type \in ty THEN i ELSE FirstOfType(exts, ty, i + 1)

createSpecWithSpec(utlsSpec, h2, h3) ==
  LET a == FirstOfType(utlsSpec, {"ALPN"}, 1)
  IN IF a = 0 THEN utlsSpec
     ELSE IF h3 THEN [utlsSpec EXCEPT ![a].list = H3Alpn(@)]
     ELSE IF ~h2 THEN [utlsSpec EXCEPT ![a].list = H1Alpn(@)]
     ELSE utlsSpec

(* --------------------------- changeSpec -------------------------------- *)
\* the inner loops of changeSpec: keep, in order, the entries not in the set;
\* change becomes true whenever an entry is kept
RECURSIVE KeepLoop(_, _, _, _)
KeepLoop(list, set, i, acc) ==
  IF i > Len(list) THEN acc
  ELSE IF list[i] \notin set
       THEN KeepLoop(list, set, i + 1, [list |-> Append(acc.list, list[i]), change |-> TRUE])
       ELSE KeepLoop(list, set, i + 1, acc)

\* (mutant) the SupportedCurves case is missing from the type switch
PruneExt_KeyShareOnly(ext, set, chg) ==
  IF Cardinality(set) > 0 /\ ext.type = "KeyShare"
  THEN KeepLoop(ext.list, set, 1, [list |-> <<>>, change |-> chg])
  ELSE [list |-> ext.list, change |-> chg]

\* one case of the type switch, for a KeyShare or SupportedCurves extension
PruneExt(ext, set, chg) ==
  IF Cardinality(set) > 0
  THEN KeepLoop(ext.list, set, 1, [list |-> <<>>, change |-> chg])
  ELSE [list |-> ext.list, change |-> chg]

Pruned == {"KeyShare", "SupportedCurves"}

KeyShares(s) ==
  LET i == FirstOfType(s, {"KeyShare"}, 1) IN IF i = 0 THEN <<>> ELSE s[i].list

Curves(s) ==
  LET i == FirstOfType(s, {"SupportedCurves"}, 1) IN IF i = 0 THEN <<>> ELSE s[i].list

Range(s) == {s[i] : i \in 1..Len(s)}

(* ------------------------------- Init ---------------------------------- *)
ClientIdle ==
  /\ specErrData = [d \in Keys |-> Nil]
  /\ heap = <<>>
  /\ pc = [p \in ProcSet |-> "idle"]
  /\ serverName = [p \in ProcSet |-> "example.com"]
  /\ spec = [p \in ProcSet |-> <<>>]
  /\ errData = [p \in ProcSet |-> Nil]
  /\ value = [p \in ProcSet |-> 0]
  /\ csChange = [p \in ProcSet |-> FALSE]
  /\ idx = [p \in ProcSet |-> 1]
  /\ site = [p \in ProcSet |-> "none"]
  /\ err = [p \in ProcSet |-> NoErr]
  /\ ret = [p \in ProcSet |-> NoRet]
  /\ applyCount = [p \in ProcSet |-> 0]
  /\ hist = [p \in ProcSet |-> <<>>]

NoCall == [fn |-> "none"]

NoH2Spec == [InitialSetting |-> <<>>, ConnFlow |-> <<0, 0>>, OrderHeaders |-> <<>>,
             Priority |-> [StreamDep |-> <<0, 0>>, Exclusive |-> FALSE, Weight |-> 0]]

NoResult == [spec |-> NoH2Spec, err |-> "nil"]

\* no pure function has been applied yet
Unapplied ==
  /\ stage = 0
  /\ alpn = [spec |-> <<>>, err |-> "nil"]
  /\ fp = <<>>
  /\ h2ja3Spec = NoResult
  /\ fp2 = <<>>

Init == ClientIdle /\ call = NoCall /\ Unapplied

\* the locals of the helpers go out of scope when the helper returns
DropLocals(p) ==
  /\ errData' = [errData EXCEPT ![p] = Nil]
  /\ value' = [value EXCEPT ![p] = 0]
  /\ csChange' = [csChange EXCEPT ![p] = FALSE]
  /\ idx' = [idx EXCEPT ![p] = 1]

(* ------------------- Client.Client: entry (lines 119-125) -------------- *)
\* (mutant) the changeSpec call of line 125 is missing
Start_NoPrune(p) ==
  /\ pc[p] = "idle"
  /\ \E t \in Templates, d \in Keys, h2 \in BOOLEAN :
       /\ spec' = [spec EXCEPT ![p] = createSpecWithSpec(t, h2, FALSE)]
       /\ serverName' = [serverName EXCEPT ![p] = d]
  /\ site' = [site EXCEPT ![p] = "pre"]
  /\ err' = [err EXCEPT ![p] = NoErr]
  /\ ret' = [ret EXCEPT ![p] = NoRet]
  /\ applyCount' = [applyCount EXCEPT ![p] = 0]
  /\ pc' = [pc EXCEPT ![p] = "apply"]
  /\ UNCHANGED <<shared, errData, value, csChange, idx, hist>>
  /\ UNCHANGED pure

\* createSpecWithSpec, utlsConfig.ServerName = serverName, then the first
\* changeSpec call is entered
Start(p) ==
  /\ pc[p] = "idle"
  /\ \E t \in Templates, d \in Keys, h2 \in BOOLEAN :
       /\ spec' = [spec EXCEPT ![p] = createSpecWithSpec(t, h2, FALSE)]
       /\ serverName' = [serverName EXCEPT ![p] = d]
  /\ site' = [site EXCEPT ![p] = "pre"]
  /\ err' = [err EXCEPT ![p] = NoErr]
  /\ ret' = [ret EXCEPT ![p] = NoRet]
  /\ applyCount' = [applyCount EXCEPT ![p] = 0]
  /\ pc' = [pc EXCEPT ![p] = "cs_load"]
  /\ UNCHANGED <<shared, errData, value, csChange, idx, hist>>
  /\ UNCHANGED pure

\* Client returns (conn, e) by the return statement of the given line
ClientReturn(p, conn, e, line) ==
  /\ pc' = [pc EXCEPT ![p] = "done"]
  /\ ret' = [ret EXCEPT ![p] = [conn |-> conn, err |-> e, line |-> line]]
  /\ err' = [err EXCEPT ![p] = e]
  /\ site' = [site EXCEPT ![p] = "none"]

\* where Client goes when changeSpec returns chg: the result of the call at
\* line 125 is dropped; at line 136 a false result returns (nil, err)
ChangeSpecReturn(p, chg) ==
  /\ DropLocals(p)
  /\ IF site[p] = "pre" \/ chg
     THEN /\ pc' = [pc EXCEPT ![p] = "apply"]
          /\ UNCHANGED <<ret, err, site>>
     ELSE ClientReturn(p, FALSE, err[p], 137)

\* the position of the next KeyShare or SupportedCurves extension, 0 if none
NextPruned(s, i) == FirstOfType(s, Pruned, i)

\* changeSpec, lines 59-63: Load; no record returns false
ChangeSpecLoad(p) ==
  /\ pc[p] = "cs_load"
  /\ IF specErrData[serverName[p]] = Nil \/ NextPruned(spec[p], 1) = 0
     THEN ChangeSpecReturn(p, FALSE)
     ELSE /\ errData' = [errData EXCEPT ![p] = specErrData[serverName[p]]]
          /\ idx' = [idx EXCEPT ![p] = NextPruned(spec[p], 1)]
          /\ csChange' = [csChange EXCEPT ![p] = FALSE]
          /\ pc' = [pc EXCEPT ![p] = "cs_iter"]
          /\ UNCHANGED <<value, ret, err, site>>
  /\ UNCHANGED <<shared, serverName, spec, applyCount, hist>>
  /\ UNCHANGED pure

\* changeSpec, lines 64-90: the loop over the extensions; one step prunes the
\* KeyShare or SupportedCurves extension the loop stands at, and returns
\* when no other is left
ChangeSpecIter(p) ==
  /\ pc[p] = "cs_iter"
  /\ LET i == idx[p]
         r == PruneExt(spec[p][i], heap[errData[p]], csChange[p])
     IN /\ spec' = [spec EXCEPT ![p][i].list = r.list]
        /\ IF NextPruned(spec[p], i + 1) = 0
           THEN ChangeSpecReturn(p, r.change)
           ELSE /\ csChange' = [csChange EXCEPT ![p] = r.change]
                /\ idx' = [idx EXCEPT ![p] = NextPruned(spec[p], i + 1)]
                /\ UNCHANGED <<pc, ret, err, site, errData, value>>
  /\ UNCHANGED <<shared, serverName, applyCount, hist>>
  /\ UNCHANGED pure

(* ----------------- Client.Client: the loop (lines 128-139) ------------- *)
\* what ApplyPreset may answer for a spec: nil, the rejection of one of the
\* key-share groups, or an error of another shape
EngineErrors(s) == {NoErr, OtherErr} \cup {CurveErr(g) : g \in Range(KeyShares(s))}

\* re.Search of line 47 and strconv.Atoi of line 49: the number of a matching
\* error, -1 when the text does not match
SearchCurveID(e) ==
  IF e.kind = "unsupported Curve in KeyShareExtension: CurveID" THEN e.n ELSE -1

\* (mutant) the result of the search is not checked: an error that does not
\* match is recorded as group 0
setSpecErrWithError_Unchecked(p, e) ==
  /\ value' = [value EXCEPT ![p] = (IF SearchCurveID(e) >= 0 THEN SearchCurveID(e) ELSE 0) % Uint16]
  /\ site' = [site EXCEPT ![p] = "loop"]
  /\ err' = [err EXCEPT ![p] = e]
  /\ pc' = [pc EXCEPT ![p] = "set_load"]
  /\ ret' = ret

\* setSpecErrWithError, lines 46-57, up to the call of line 51; an error that
\* does not match returns false, and Client returns (nil, err) at line 134
setSpecErrWithError(p, e) ==
  IF SearchCurveID(e) >= 0
  THEN /\ value' = [value EXCEPT ![p] = SearchCurveID(e) % Uint16]
       /\ site' = [site EXCEPT ![p] = "loop"]
       /\ err' = [err EXCEPT ![p] = e]
       /\ pc' = [pc EXCEPT ![p] = "set_load"]
       /\ ret' = ret
  ELSE /\ ClientReturn(p, FALSE, e, 134)
       /\ value' = value

\* lines 129-133: utlsConn.ApplyPreset(&uspec); nil leaves the loop, an error
\* goes to setSpecErrWithError
ApplyPreset(p) ==
  /\ pc[p] = "apply"
  /\ applyCount' = [applyCount EXCEPT ![p] = @ + 1]
  /\ \E e \in EngineErrors(spec[p]) :
       IF e = NoErr
       THEN /\ pc' = [pc EXCEPT ![p] = "handshake"]
            /\ UNCHANGED <<err, value, site, ret>>
       ELSE setSpecErrWithError(p, e)
  /\ UNCHANGED <<shared, serverName, spec, errData, csChange, idx, hist>>
  /\ UNCHANGED pure

(* ---------------- setSpecErrWithKeyShareExtension (32-45) --------------- *)
\* the caller's use of the result: Client (lines 133-136) returns (nil, err)
\* on false and enters changeSpec on true; a test goroutine notes the result
SetReturn(p, chg) ==
  /\ errData' = [errData EXCEPT ![p] = Nil]
  /\ IF site[p] = "direct"
     THEN /\ hist' = [hist EXCEPT ![p][Len(hist[p])] = [@ EXCEPT !.returned = TRUE, !.change = chg]]
          /\ pc' = [pc EXCEPT ![p] = "idle"]
          /\ site' = [site EXCEPT ![p] = "none"]
          /\ value' = [value EXCEPT ![p] = 0]
          /\ UNCHANGED <<ret, err>>
     ELSE /\ hist' = hist
          /\ value' = [value EXCEPT ![p] = 0]
          /\ IF chg
             THEN /\ pc' = [pc EXCEPT ![p] = "cs_load"]
                  /\ UNCHANGED <<ret, err, site>>
             ELSE ClientReturn(p, FALSE, err[p], 134)

\* (mutant) the registry is read under one fixed key, whatever the server name
SetLoad_OneKey(p) ==
  /\ pc[p] = "set_load"
  /\ errData' = [errData EXCEPT ![p] = specErrData["example.com"]]
  /\ pc' = [pc EXCEPT ![p] = IF specErrData["example.com"] # Nil THEN "set_has" ELSE "set_store"]
  /\ UNCHANGED <<shared, serverName, spec, value, csChange, idx, site, err, ret,
                 applyCount, hist>>
  /\ UNCHANGED pure

\* line 33: Load
SetLoad(p) ==
  /\ pc[p] = "set_load"
  /\ errData' = [errData EXCEPT ![p] = specErrData[serverName[p]]]
  /\ pc' = [pc EXCEPT ![p] = IF specErrData[serverName[p]] # Nil THEN "set_has" ELSE "set_store"]
  /\ UNCHANGED <<shared, serverName, spec, value, csChange, idx, site, err, ret,
                 applyCount, hist>>
  /\ UNCHANGED pure

\* (mutant) the Has test is missing: the value is added and change is true
SetHas_NoTest(p) ==
  /\ pc[p] = "set_has"
  /\ pc' = [pc EXCEPT ![p] = "set_add"]
  /\ UNCHANGED <<errData, value, site, err, ret, hist>>
  /\ UNCHANGED <<shared, serverName, spec, csChange, idx, applyCount>>
  /\ UNCHANGED pure

\* line 36: Has on the loaded record; a value already there returns false
SetHas(p) ==
  /\ pc[p] = "set_has"
  /\ IF value[p] \notin heap[errData[p]]
     THEN /\ pc' = [pc EXCEPT ![p] = "set_add"]
          /\ UNCHANGED <<errData, value, site, err, ret, hist>>
     ELSE SetReturn(p, FALSE)
  /\ UNCHANGED <<shared, serverName, spec, csChange, idx, applyCount>>
  /\ UNCHANGED pure

\* lines 37-38: change = true, Add to the loaded record
SetAdd(p) ==
  /\ pc[p] = "set_add"
  /\ heap' = [heap EXCEPT ![errData[p]] = @ \cup {value[p]}]
  /\ SetReturn(p, TRUE)
  /\ UNCHANGED <<specErrData, serverName, spec, csChange, idx, applyCount>>
  /\ UNCHANGED pure

\* (mutant) the new record is created empty, without the value
SetStore_Empty(p) ==
  /\ pc[p] = "set_store"
  /\ heap' = Append(heap, {})
  /\ specErrData' = [specErrData EXCEPT ![serverName[p]] = Len(heap) + 1]
  /\ SetReturn(p, TRUE)
  /\ UNCHANGED <<serverName, spec, csChange, idx, applyCount>>
  /\ UNCHANGED pure

\* lines 41-42: change = true, a new record holding the value is stored
SetStore(p) ==
  /\ pc[p] = "set_store"
  /\ heap' = Append(heap, {value[p]})
  /\ specErrData' = [specErrData EXCEPT ![serverName[p]] = Len(heap) + 1]
  /\ SetReturn(p, TRUE)
  /\ UNCHANGED <<serverName, spec, csChange, idx, applyCount>>
  /\ UNCHANGED pure

(* ---------------- Client.Client: handshake (lines 140-141) -------------- *)
\* what HandshakeContext may answer
HandshakeErrors(s) == EngineErrors(s)

\* (mutant) the error of the handshake goes through setSpecErrWithError too
Handshake_Classifies(p) ==
  /\ pc[p] = "handshake"
  /\ \E e \in HandshakeErrors(spec[p]) :
       IF e = NoErr THEN ClientReturn(p, TRUE, e, 141) /\ value' = value
       ELSE setSpecErrWithError(p, e)
  /\ UNCHANGED <<shared, serverName, spec, errData, csChange, idx, applyCount, hist>>
  /\ UNCHANGED pure

\* lines 140-141: the handshake; its error and the connection are returned
Handshake(p) ==
  /\ pc[p] = "handshake"
  /\ \E e \in HandshakeErrors(spec[p]) : ClientReturn(p, TRUE, e, 141)
  /\ UNCHANGED <<shared, serverName, spec, errData, value, csChange, idx,
                 applyCount, hist>>
  /\ UNCHANGED pure

ClientStep(p) ==
  \/ Start(p)
  \/ ChangeSpecLoad(p)
  \/ ChangeSpecIter(p)
  \/ ApplyPreset(p)
  \/ SetLoad(p)
  \/ SetHas(p)
  \/ SetAdd(p)
  \/ SetStore(p)
  \/ Handshake(p)

(* Concurrent Client calls, one per goroutine.                             *)
Next == \E p \in ProcSet : ClientStep(p)

Spec == Init /\ [][Next]_vars

(* ------------------------- test goroutines ----------------------------- *)
\* a goroutine that has made fewer than max direct calls calls
\* setSpecErrWithKeyShareExtension(d, g) and notes whether the registry held
\* g for d when it called, and the result
CallUpTo(p, max) ==
  /\ pc[p] = "idle"
  /\ Len(hist[p]) < max
  /\ \E d \in Keys, g \in Groups :
       /\ serverName' = [serverName EXCEPT ![p] = d]
       /\ value' = [value EXCEPT ![p] = g]
       /\ hist' = [hist EXCEPT ![p] = Append(@, [key |-> d, value |-> g, had |-> g \in Mem(d),
                                                 returned |-> FALSE, change |-> FALSE])]
  /\ site' = [site EXCEPT ![p] = "direct"]
  /\ pc' = [pc EXCEPT ![p] = "set_load"]
  /\ UNCHANGED <<shared, spec, errData, csChange, idx, err, ret, applyCount>>
  /\ UNCHANGED pure

\* one call after the other
Call(p) == CallUpTo(p, MaxCalls)

\* every goroutine reports one rejected group
Report(p) == CallUpTo(p, 1)

\* the goroutine that finished a Client call makes its next call
Restart(p) ==
  /\ pc[p] = "done"
  /\ pc' = [pc EXCEPT ![p] = "idle"]
  /\ spec' = [spec EXCEPT ![p] = <<>>]
  /\ err' = [err EXCEPT ![p] = NoErr]
  /\ ret' = [ret EXCEPT ![p] = NoRet]
  /\ applyCount' = [applyCount EXCEPT ![p] = 0]
  /\ serverName' = [serverName EXCEPT ![p] = "example.com"]
  /\ UNCHANGED <<shared, errData, value, csChange, idx, site, hist>>
  /\ UNCHANGED pure

(* The goroutines report one rejected group each, concurrently.            *)
NextReg ==
  \E p \in ProcSet : Report(p) \/ SetLoad(p) \/ SetHas(p) \/ SetAdd(p) \/ SetStore(p)

SpecReg == Init /\ [][NextReg]_vars

(* One goroutine making Client calls and direct registry calls one after   *)
(* the other.                                                              *)
NextSeq == \E p \in {1} : ClientStep(p) \/ Call(p) \/ Restart(p)

SpecSeq == Init /\ [][NextSeq]_vars

(* ======================= properties of the registry ==================== *)
Recognized(e) == SearchCurveID(e) >= 0

Unrecognized(e) == e # NoErr /\ ~Recognized(e)

\* goroutine p takes a step out of the state named at
Leaves(p, at) == pc[p] = at /\ pc'[p] # at

\* C1: ErrorMemory is monotonic under every interleaving: a group that
\* ErrorMemory(D) contains in some state is contained in it in every later
\* state, also when two callers race to create the record of a destination.
C1_Monotonic == [][\A d \in Keys : Mem(d) \subseteq Mem(d)']_vars

\* the direct calls that have returned, as <<goroutine, position>>
Returned == {c \in ProcSet \X (1..MaxCalls) : c[2] <= Len(hist[c[1]]) /\ hist[c[1]][c[2]].returned}

CallOf(c) == hist[c[1]][c[2]]

\* C2: of the calls recordRejectedGroup(D, G) with the same destination and
\* the same group, made by any goroutines in any interleaving, at most one
\* returns changed = true (only the caller whose insert grew ErrorMemory(D)).
C2_OneChanged ==
  \A c1, c2 \in Returned :
    (/\ CallOf(c1).key = CallOf(c2).key
     /\ CallOf(c1).value = CallOf(c2).value
     /\ CallOf(c1).change
     /\ CallOf(c2).change) => c1 = c2

AllIdle == \A p \in ProcSet : pc[p] = "idle"

\* the groups reported for destination d by the direct calls so far
Reported(d) == {CallOf(c).value : c \in {x \in Returned : CallOf(x).key = d}}

\* C3: when the callers, however they interleave, have all reported the same
\* new group G for the same new destination D and have all returned, the
\* registry holds one record for D and the record holds G and nothing else.
C3_OneRecordOneGroup ==
  \A d \in Keys, g \in Groups :
    (AllIdle /\ Reported(d) = {g}) => (specErrData[d] # Nil /\ heap[specErrData[d]] = {g})

\* two goroutines raced on the same new destination with the same group, both
\* stored a record, and both have returned
C3_Witness ==
  /\ AllIdle
  /\ Len(heap) = 2
  /\ \E d \in Keys, g \in Groups :
       /\ Reported(d) = {g}
       /\ \A p \in ProcSet : Len(hist[p]) = 1 /\ hist[p][1].key = d /\ hist[p][1].change
       /\ Mem(d) = {g}

(* ======================= properties of Client ========================== *)
\* goroutine p returns by the Exhausted path: the rejection was recognized
\* and setSpecErrWithKeyShareExtension reported no change
Exhausts(p) == (Leaves(p, "set_has") \/ Leaves(p, "set_add") \/ Leaves(p, "set_store")) /\ pc'[p] = "done"

\* C4: whenever a Client call terminates as Exhausted, no group of
\* ErrorMemory(D) is left in its key-share list or its supported-curves
\* list, also when concurrent calls to D recorded the group first.
C4_ExhaustedIsPruned ==
  [][\A p \in ProcSet :
       Exhausts(p) =>
         /\ Range(KeyShares(spec'[p])) \cap Mem(serverName[p])' = {}
         /\ Range(Curves(spec'[p])) \cap Mem(serverName[p])' = {}]_vars

\* C5: an engine failure whose message does not match the unsupported-group
\* shape is fatal: the step that receives it changes no ErrorMemory and
\* returns that error to the caller, and the call makes no further attempt.
C5_UnrecognizedIsFatal ==
  [][\A p \in ProcSet :
       /\ ((Leaves(p, "apply") \/ Leaves(p, "handshake"))
             /\ pc'[p] # "handshake" /\ Unrecognized(err'[p]))
          => /\ shared' = shared
             /\ pc'[p] = "done"
             /\ ret'[p].err = err'[p]
       /\ (pc[p] = "done" /\ Unrecognized(ret[p].err))
          => (applyCount'[p] = applyCount[p] /\ ret'[p] = ret[p])]_vars

\* a call that ended with the unrecognized error on its first attempt, and one
\* that ended with it after a retry
C5_Witness ==
  /\ \E p \in ProcSet : pc[p] = "done" /\ ret[p] = [conn |-> FALSE, err |-> OtherErr, line |-> 134]
                        /\ applyCount[p] = 1
  /\ \E p \in ProcSet : pc[p] = "done" /\ ret[p].err = OtherErr /\ applyCount[p] = 2
                        /\ Mem(serverName[p]) # {}

\* goroutine p returns from the changeSpec call of the loop (line 136)
LoopChangeSpecReturns(p) ==
  /\ site[p] = "loop"
  /\ pc[p] \in {"cs_load", "cs_iter"}
  /\ pc'[p] \notin {"cs_load", "cs_iter"}

\* C6: whenever a recognized rejection was recorded with changed = true, the
\* controller prunes the parameters and goes back to Attempting, for every
\* template, also when the pruning leaves both lists empty: the controller
\* never aborts on its own.
C6_RetryAfterPrune ==
  [][\A p \in ProcSet : LoopChangeSpecReturns(p) => pc'[p] = "apply"]_vars

C8_ConnXorErr ==
  \A p \in ProcSet : pc[p] = "done" => (ret[p].conn <=> ret[p].err = NoErr)

(* ======================= properties of changeSpec ====================== *)
\* the order-preserving filter: s without the entries that are in set
Without(s, set) == SelectSeq(s, LAMBDA x : x \notin set)

\* C9: applying ErrorMemory(D) to the parameters is an order-preserving
\* filter applied to the key-share list and the supported-curves list alike:
\* every step of changeSpec replaces one such list by the list without the
\* entries that are in ErrorMemory(D) and changes nothing else, and when
\* changeSpec returns no such list holds a group of ErrorMemory(D).
C9_ChangeSpecFilters ==
  [][\A p \in ProcSet :
       /\ Leaves(p, "cs_load") => spec'[p] = spec[p]
       /\ pc[p] = "cs_iter" /\ (pc'[p] # "cs_iter" \/ idx'[p] # idx[p])
          => /\ Len(spec'[p]) = Len(spec[p])
             /\ \A i \in 1..Len(spec[p]) :
                  /\ spec'[p][i].type = spec[p][i].type
                  /\ spec'[p][i].list =
                       IF i = idx[p] THEN Without(spec[p][i].list, Mem(serverName[p]))
                       ELSE spec[p][i].list
       /\ (pc[p] \in {"cs_load", "cs_iter"} /\ pc'[p] \notin {"cs_load", "cs_iter"})
          => \A i \in 1..Len(spec'[p]) :
               spec'[p][i].type \in Pruned
                 => Range(spec'[p][i].list) \cap Mem(serverName[p]) = {}]_vars

\* key shares {23,24,29} and curves {23,24,29} with memory {24} have become
\* {23,29} and {23,29} before the first attempt, the ALPN list untouched
C9_Witness ==
  \E p \in ProcSet :
    /\ pc[p] = "apply" /\ applyCount[p] = 0
    /\ Mem(serverName[p]) = {24}
    /\ spec[p] = <<ALPNExt(<<"h2", "http/1.1">>), CurvesExt(<<23, 29>>), KeyShareExt(<<23, 29>>)>>

\* C10: recordRejectedGroup is idempotent in sequence: a call on a
\* destination that did not hold the group returns changed = true, a call
\* that repeats the call before it returns changed = false, and after a call
\* ErrorMemory(D) holds the group.
C10_Idempotent ==
  \A c \in Returned :
    /\ CallOf(c).value \in Mem(CallOf(c).key)
    /\ ~CallOf(c).had => CallOf(c).change
    /\ (c[2] > 1 /\ hist[c[1]][c[2] - 1].key = CallOf(c).key
                 /\ hist[c[1]][c[2] - 1].value = CallOf(c).value) => ~CallOf(c).change

\* two successive calls with the same destination and group: the first
\* changed the memory, the second did not
C10_Witness ==
  \E p \in ProcSet :
    /\ Len(hist[p]) = 2 /\ hist[p][2].returned
    /\ hist[p][1].key = hist[p][2].key /\ hist[p][1].value = hist[p][2].value
    /\ ~hist[p][1].had /\ hist[p][1].change /\ ~hist[p][2].change

(* ======================= properties of the retry loop ================== *)
RECURSIVE SumOver(_, _)
SumOver(f, S) ==
  IF S = {} THEN 0 ELSE LET x == CHOOSE y \in S : TRUE IN f[x] + SumOver(f, S \ {x})

\* the retries made toward destination d: the ApplyPreset calls after the
\* first of every Client call to d
Retries(d) ==
  SumOver([p \in ProcSet |-> IF applyCount[p] > 0 THEN applyCount[p] - 1 ELSE 0],
          {p \in ProcSet : pc[p] # "idle" /\ serverName[p] = d})

\* C11: the retry loop is bounded by the growth of the memory: every retry
\* follows a strict growth of ErrorMemory(D), so under any interleaving the
\* retries made toward a destination never exceed the number of distinct
\* group ids offered to it (here at most the groups of the templates).
C11_RetriesBounded == \A d \in Keys : Retries(d) <= Cardinality(Groups)

\* the groups of the key-share and supported-curves lists of a spec
Offered(s) == UNION {Range(s[i].list) : i \in {j \in 1..Len(s) : s[j].type \in Pruned}}

\* C18: with the Client calls made one after the other, the parameters handed
\* to the engine on the first and on every later attempt of a call hold no
\* key-share group and no supported curve of ErrorMemory(D), which is what
\* the memory held when the call started and what the call recorded since.
C18_PrunedBeforeAttempt ==
  \A p \in ProcSet :
    pc[p] \in {"apply", "handshake"} => Offered(spec[p]) \cap Mem(serverName[p]) = {}

\* a first attempt to a destination whose memory a former call filled, with
\* parameters that a former call's rejections have shortened
C18_Witness ==
  \E p \in ProcSet :
    /\ pc[p] = "apply" /\ applyCount[p] = 0
    /\ Mem(serverName[p]) = {23, 24}
    /\ KeyShares(spec[p]) = <<29>> /\ Curves(spec[p]) = <<29>>

\* goroutine p is the only one that has called for its destination
Alone(p) == \A q \in ProcSet \ {p} : pc[q] = "idle" \/ serverName[q] # serverName[p]

Unpruned == {createSpecWithSpec(t, h2, FALSE) : t \in Templates, h2 \in BOOLEAN}

\* C19: destinations are isolated: the memory of a destination changes only
\* in a recording step of a call for that destination, and a call that is
\* alone on its destination hands its template to the first attempt
\* unpruned, whatever the other destinations have recorded.
C19_Isolation ==
  [][/\ \A d \in Keys :
          Mem(d)' # Mem(d) =>
            \E p \in ProcSet : /\ serverName[p] = d
                               /\ pc[p] \in {"set_add", "set_store"}
                               /\ pc'[p] # pc[p]
     /\ \A p \in ProcSet :
          (Alone(p) /\ pc[p] = "apply" /\ applyCount[p] = 0)' => (spec[p] \in Unpruned)'
    ]_vars

\* a call to one destination stands before its first attempt with group 24
\* in its lists while the other destination has recorded 24
C19_Witness ==
  \E p \in ProcSet, d \in Keys :
    /\ d # serverName[p]
    /\ 24 \in Mem(d)
    /\ pc[p] = "apply" /\ applyCount[p] = 0
    /\ 24 \in Range(KeyShares(spec[p]))
    /\ Mem(serverName[p]) = {}

(* ================= createSpecWithSpec as a function =================== *)
Protos == {"h2", "http/1.1", "h3", "spdy/3.1"}

\* the lists over S of length at most n
SeqsUpTo(S, n) == UNION {[1..k -> S] : k \in 0..n}

AlpnLists == SeqsUpTo(Protos, MaxAlpn)

(* Templates around an ALPN list: the ALPN extension first, after another  *)
(* extension, followed by a second ALPN extension; and templates that have *)
(* no ALPN extension.                                                      *)
AlpnTemplates ==
  {<<ALPNExt(l), KeyShareExt(<<29>>)>> : l \in AlpnLists}
    \cup {<<SNIExt, ALPNExt(l)>> : l \in AlpnLists}
    \cup {<<CurvesExt(<<23>>), ALPNExt(l), ALPNExt(<<"h2", "http/1.1">>)>> : l \in AlpnLists}
    \cup {t \in Templates : FirstOfType(t, {"ALPN"}, 1) = 0}
    \cup {<<>>}

AlpnCalls ==
  {[fn |-> "createSpecWithSpec", utlsSpec |-> t, h2 |-> b2, h3 |-> b3] :
     t \in AlpnTemplates, b2 \in BOOLEAN, b3 \in BOOLEAN}

InitAlpn == ClientIdle /\ call \in AlpnCalls /\ Unapplied

\* createSpecWithSpec(utlsSpec, h2, h3) is called and returns (utlsSpec, nil)
CreateSpec ==
  /\ call.fn = "createSpecWithSpec"
  /\ stage = 0
  /\ alpn' = [spec |-> createSpecWithSpec(call.utlsSpec, call.h2, call.h3), err |-> "nil"]
  /\ stage' = 1
  /\ UNCHANGED <<call, fp, h2ja3Spec, fp2, client>>

NextAlpn == CreateSpec

SpecAlpn == InitAlpn /\ [][NextAlpn]_vars

\* position of the first ALPN extension of the template of the call
AlpnAt == FirstOfType(call.utlsSpec, {"ALPN"}, 1)

Created == call.fn = "createSpecWithSpec" /\ stage = 1

\* C12: in HTTP/1.1-only mode (h2 = false, h3 = false), for every input
\* ALPN list, the resulting list has no "h2" entry, contains "http/1.1" and
\* has "http/1.1" as its first element.
C12_Http1Only ==
  (Created /\ ~call.h2 /\ ~call.h3 /\ AlpnAt # 0) =>
    LET l == alpn.spec[AlpnAt].list
    IN /\ ~Contains(l, "h2")
       /\ Contains(l, "http/1.1")
       /\ l[1] = "http/1.1"

\* C13: in HTTP/3 mode (h3 = true), for every input ALPN list and either
\* value of h2, the first ALPN extension's list becomes exactly <<"h3">> and
\* nothing else of the template changes; in any mode a template without an
\* ALPN extension is returned unchanged; and the error is nil.
C13_Http3Only ==
  Created =>
    /\ alpn.err = "nil"
    /\ (call.h3 /\ AlpnAt # 0) =>
         /\ alpn.spec[AlpnAt].list = <<"h3">>
         /\ Len(alpn.spec) = Len(call.utlsSpec)
         /\ \A i \in 1..Len(call.utlsSpec) :
              /\ alpn.spec[i].type = call.utlsSpec[i].type
              /\ i # AlpnAt => alpn.spec[i] = call.utlsSpec[i]
    /\ AlpnAt = 0 => alpn.spec = call.utlsSpec

C13_Witness ==
  /\ Created /\ call.h3 /\ call.h2 /\ AlpnAt = 2 /\ Len(call.utlsSpec) = 3
  /\ call.utlsSpec[2].list = <<"h2", "http/1.1", "spdy/3.1">>
  /\ call.utlsSpec[3].type = "ALPN"
  /\ alpn.spec[2].list = <<"h3">>
  /\ alpn.spec[3] = call.utlsSpec[3]

(* ==================== the HTTP/2 fingerprint codec ===================== *)
(* A Go string is the sequence of its characters, each a one-character     *)
(* string.  An integer wider than 16 bits is the sequence of its base-2^16 *)
(* limbs, lowest first: a uint32 has two limbs, a uint64 four.             *)
Digits == <<"0", "1", "2", "3", "4", "5", "6", "7", "8", "9">>

IsDigit(c) == \E d \in 0..9 : Digits[d + 1] = c

DigitVal(c) == CHOOSE d \in 0..9 : Digits[d + 1] = c

Zero64 == <<0, 0, 0, 0>>

\* n * 10 + d on a uint64; over when the result needs more than 64 bits
MulAdd10(n, d) ==
  LET c1 == n[1] * 10 + d
      c2 == n[2] * 10 + (c1 \div Uint16)
      c3 == n[3] * 10 + (c2 \div Uint16)
      c4 == n[4] * 10 + (c3 \div Uint16)
  IN [n |-> <<c1 % Uint16, c2 % Uint16, c3 % Uint16, c4 % Uint16>>,
      over |-> c4 \div Uint16 > 0]

\* n <= maxVal = 1<<bitSize - 1
FitsUint(n, bitSize) == bitSize = 64 \/ (n[3] = 0 /\ n[4] = 0)

RECURSIVE ParseUint(_, _, _, _)
\* strconv.ParseUint(s, 10, bitSize), from position i on with n accumulated
ParseUint(s, i, n, bitSize) ==
  IF i > Len(s) THEN [n |-> n, err |-> "nil"]
  ELSE IF ~IsDigit(s[i]) THEN [n |-> Zero64, err |-> "invalid syntax"]
  ELSE LET m == MulAdd10(n, DigitVal(s[i]))
       IN IF m.over \/ ~FitsUint(m.n, bitSize)
          THEN [n |-> Zero64, err |-> "value out of range"]
          ELSE ParseUint(s, i + 1, m.n, bitSize)

\* the limb that holds the sign bit of an int of bitSize bits
TopLimb(bitSize) == bitSize \div 16

\* un >= cutoff = 1 << (bitSize-1), for un that fits bitSize bits
AtLeastCutoff(un, bitSize) == un[TopLimb(bitSize)] >= Uint16 \div 2

\* un > cutoff
AboveCutoff(un, bitSize) ==
  \/ un[TopLimb(bitSize)] > Uint16 \div 2
  \/ /\ un[TopLimb(bitSize)] = Uint16 \div 2
     /\ \E i \in 1..(TopLimb(bitSize) - 1) : un[i] # 0

AtoiErr(e) == [neg |-> FALSE, mag |-> Zero64, err |-> e]

\* (mutant) the empty string reads as 0
Atoi_EmptyIsZero(s, intSize) ==
  IF Len(s) = 0 THEN [neg |-> FALSE, mag |-> Zero64, err |-> "nil"]
  ELSE LET neg == s[1] = "-"
           rest == IF s[1] \in {"+", "-"} THEN Tail(s) ELSE s
       IN IF Len(rest) = 0 THEN AtoiErr("invalid syntax")
          ELSE LET u == ParseUint(rest, 1, Zero64, intSize)
               IN IF u.err # "nil" THEN AtoiErr(u.err)
                  ELSE IF ~neg /\ AtLeastCutoff(u.n, intSize) THEN AtoiErr("value out of range")
                  ELSE IF neg /\ AboveCutoff(u.n, intSize) THEN AtoiErr("value out of range")
                  ELSE [neg |-> neg, mag |-> u.n, err |-> "nil"]

\* strconv.Atoi(s) where int has intSize bits: the int is its sign and its
\* magnitude
Atoi(s, intSize) ==
  IF Len(s) = 0 THEN AtoiErr("invalid syntax")
  ELSE LET neg == s[1] = "-"
           rest == IF s[1] \in {"+", "-"} THEN Tail(s) ELSE s
       IN IF Len(rest) = 0 THEN AtoiErr("invalid syntax")
          ELSE LET u == ParseUint(rest, 1, Zero64, intSize)
               IN IF u.err # "nil" THEN AtoiErr(u.err)
                  ELSE IF ~neg /\ AtLeastCutoff(u.n, intSize) THEN AtoiErr("value out of range")
                  ELSE IF neg /\ AboveCutoff(u.n, intSize) THEN AtoiErr("value out of range")
                  ELSE [neg |-> neg, mag |-> u.n, err |-> "nil"]

\* (mutant) the conversion saturates instead of wrapping
ToUint16_Saturating(i) ==
  IF i.neg THEN 0
  ELSE IF i.mag[2] # 0 \/ i.mag[3] # 0 \/ i.mag[4] # 0 THEN Uint16 - 1 ELSE i.mag[1]

\* Http2SettingID(i): the low 16 bits of the two's complement of the int
ToUint16(i) == IF i.neg THEN (Uint16 - i.mag[1]) % Uint16 ELSE i.mag[1]

\* (mutant) the conversion keeps 16 bits only
ToUint32_Short(i) == <<i.mag[1], 0>>

\* uint32(i): the low 32 bits of the two's complement of the int
ToUint32(i) ==
  IF i.neg
  THEN <<(Uint16 - i.mag[1]) % Uint16,
         (Uint16 - 1 - i.mag[2] + (IF i.mag[1] = 0 THEN 1 ELSE 0)) % Uint16>>
  ELSE <<i.mag[1], i.mag[2]>>

RECURSIVE FormatUint16(_)
\* fmt's %d of a uint16
FormatUint16(n) ==
  IF n < 10 THEN <<Digits[n + 1]>>
  ELSE Append(FormatUint16(n \div 10), Digits[(n % 10) + 1])

RECURSIVE FormatUint32(_)
\* fmt's %d of a uint32
FormatUint32(v) ==
  IF v[2] = 0 THEN FormatUint16(v[1])
  ELSE LET t == (v[2] % 10) * Uint16 + v[1]
       IN Append(FormatUint32(<<t \div 10, v[2] \div 10>>), Digits[(t % 10) + 1])

RECURSIVE SplitFrom(_, _, _, _)
\* strings.Split(s, sep) for a one-character sep: cur is the piece being read
SplitFrom(s, sep, i, cur) ==
  IF i > Len(s) THEN <<cur>>
  ELSE IF s[i] = sep THEN <<cur>> \o SplitFrom(s, sep, i + 1, <<>>)
  ELSE SplitFrom(s, sep, i + 1, Append(cur, s[i]))

Split(s, sep) == SplitFrom(s, sep, 1, <<>>)

RECURSIVE Join(_, _)
\* strings.Join(elems, sep)
Join(elems, sep) ==
  IF Len(elems) = 0 THEN <<>>
  ELSE IF Len(elems) = 1 THEN elems[1]
  ELSE elems[1] \o <<sep>> \o Join(Tail(elems), sep)


Lowers == <<"a", "b", "c", "d", "e", "f", "g", "h", "i", "j", "k", "l", "m">>
            \o <<"n", "o", "p", "q", "r", "s", "t", "u", "v", "w", "x", "y", "z">>

Uppers == <<"A", "B", "C", "D", "E", "F", "G", "H", "I", "J", "K", "L", "M">>
            \o <<"N", "O", "P", "Q", "R", "S", "T", "U", "V", "W", "X", "Y", "Z">>

IsUpper(c) == \E i \in 1..26 : Uppers[i] = c

IsLower(c) == \E i \in 1..26 : Lowers[i] = c

LowerChar(c) == IF IsUpper(c) THEN Lowers[CHOOSE i \in 1..26 : Uppers[i] = c] ELSE c

UpperChar(c) == IF IsLower(c) THEN Uppers[CHOOSE i \in 1..26 : Lowers[i] = c] ELSE c

\* strings.ToLower
ToLower(str) == [i \in 1..Len(str) |-> LowerChar(str[i])]

\* the header field bytes textproto accepts, among the characters used here
IsTokenChar(c) == IsUpper(c) \/ IsLower(c) \/ IsDigit(c) \/ c = "-"

\* textproto.CanonicalMIMEHeaderKey: a key with a byte that is not a token
\* character is returned as it is; otherwise the first letter and every
\* letter after a hyphen become upper case and the others lower case
CanonicalMIMEHeaderKey(key) ==
  IF \E i \in 1..Len(key) : ~IsTokenChar(key[i]) THEN key
  ELSE [i \in 1..Len(key) |->
          IF i = 1 \/ key[IF i = 1 THEN 1 ELSE i - 1] = "-" THEN UpperChar(key[i]) ELSE LowerChar(key[i])]

Method == <<":", "m", "e", "t", "h", "o", "d">>

Authority == <<":", "a", "u", "t", "h", "o", "r", "i", "t", "y">>

Scheme == <<":", "s", "c", "h", "e", "m", "e">>

Path == <<":", "p", "a", "t", "h">>

defaultOrderHeaders ==
  <<Method, Authority, Scheme, Path,
    <<"H", "o", "s", "t">>,
    <<"C", "o", "n", "n", "e", "c", "t", "i", "o", "n">>,
    <<"C", "o", "n", "t", "e", "n", "t", "-", "L", "e", "n", "g", "t", "h">>,
    <<"p", "r", "a", "g", "m", "a">>,
    <<"c", "a", "c", "h", "e", "-", "c", "o", "n", "t", "r", "o", "l">>,
    <<"s", "e", "c", "-", "c", "h", "-", "u", "a">>,
    <<"s", "e", "c", "-", "c", "h", "-", "u", "a", "-", "m", "o", "b", "i", "l", "e">>,
    <<"s", "e", "c", "-", "c", "h", "-", "u", "a", "-", "p", "l", "a", "t", "f", "o", "r", "m">>,
    <<"u", "p", "g", "r", "a", "d", "e", "-", "i", "n", "s", "e", "c", "u", "r", "e", "-", "r", "e", "q", "u", "e", "s", "t", "s">>,
    <<"a", "c", "c", "e", "p", "t">>,
    <<"u", "s", "e", "r", "-", "a", "g", "e", "n", "t">>,
    <<"o", "r", "i", "g", "i", "n">>,
    <<"R", "e", "f", "e", "r", "e", "r">>,
    <<"s", "e", "c", "-", "f", "e", "t", "c", "h", "-", "s", "i", "t", "e">>,
    <<"s", "e", "c", "-", "f", "e", "t", "c", "h", "-", "m", "o", "d", "e">>,
    <<"s", "e", "c", "-", "f", "e", "t", "c", "h", "-", "u", "s", "e", "r">>,
    <<"s", "e", "c", "-", "f", "e", "t", "c", "h", "-", "d", "e", "s", "t">>,
    <<"a", "c", "c", "e", "p", "t", "-", "e", "n", "c", "o", "d", "i", "n", "g">>,
    <<"a", "c", "c", "e", "p", "t", "-", "l", "a", "n", "g", "u", "a", "g", "e">>,
    <<"C", "o", "o", "k", "i", "e">>>>

DefaultOrderHeaders == [i \in 1..Len(defaultOrderHeaders) |-> CanonicalMIMEHeaderKey(defaultOrderHeaders[i])]

\* the number n < 2^31 as a uint32
U32(n) == <<n % Uint16, n \div Uint16>>

DefaultH2Spec ==
  [InitialSetting |-> <<[Id |-> 1, Val |-> U32(65536)],
                        [Id |-> 2, Val |-> U32(0)],
                        [Id |-> 3, Val |-> U32(1000)],
                        [Id |-> 4, Val |-> U32(6291456)],
                        [Id |-> 6, Val |-> U32(262144)]>>,
   ConnFlow |-> U32(15663105),
   OrderHeaders |-> DefaultOrderHeaders,
   Priority |-> [StreamDep |-> U32(0), Exclusive |-> TRUE, Weight |-> 255]]

(* ------------------------------- Fp ------------------------------------ *)
\* fmt.Sprintf("%d:%d", setting.Id, setting.Val)
SettingStr(setting) == FormatUint16(setting.Id) \o <<":">> \o FormatUint32(setting.Val)

\* the switch of Fp: what one header appends to heads
HeadLetter(head) ==
  LET h == ToLower(head)
  IN IF h = Method THEN <<<<"m">>>>
     ELSE IF h = Authority THEN <<<<"a">>>>
     ELSE IF h = Scheme THEN <<<<"s">>>>
     ELSE IF h = Path THEN <<<<"p">>>>
     ELSE <<>>

RECURSIVE FpHeads(_)
\* the loop of Fp over obj.OrderHeaders
FpHeads(headers) ==
  IF Len(headers) = 0 THEN <<>> ELSE HeadLetter(Head(headers)) \o FpHeads(Tail(headers))

Fp(obj) ==
  LET settings == [i \in 1..Len(obj.InitialSetting) |-> SettingStr(obj.InitialSetting[i])]
      heads == FpHeads(obj.OrderHeaders)
  IN Join(<<Join(settings, ","), FormatUint32(obj.ConnFlow), <<"0">>, Join(heads, ",")>>, "|")

(* ------------------------ CreateH2SpecWithStr -------------------------- *)
RECURSIVE ParseSettings(_, _, _, _)
\* the loop over strings.Split(tokens[0], ","): the settings read so far and
\* the error that ended the loop
ParseSettings(toks, i, acc, intSize) ==
  IF i > Len(toks) THEN [list |-> acc, err |-> "nil"]
  ELSE LET tts == Split(toks[i], ":")
       IN IF Len(tts) # 2 THEN [list |-> acc, err |-> "h2 setting error"]
          ELSE LET ttKey == Atoi(tts[1], intSize)
                   ttVal == Atoi(tts[2], intSize)
               IN IF ttKey.err # "nil" THEN [list |-> acc, err |-> ttKey.err]
                  ELSE IF ttVal.err # "nil" THEN [list |-> acc, err |-> ttVal.err]
                  ELSE ParseSettings(toks, i + 1,
                         Append(acc, [Id |-> ToUint16(ttKey), Val |-> ToUint32(ttVal)]), intSize)

\* the switch of CreateH2SpecWithStr: what one letter appends to OrderHeaders
LetterHead(hkey) ==
  IF hkey = <<"m">> THEN <<Method>>
  ELSE IF hkey = <<"a">> THEN <<Authority>>
  ELSE IF hkey = <<"s">> THEN <<Scheme>>
  ELSE IF hkey = <<"p">> THEN <<Path>>
  ELSE <<>>

RECURSIVE ParseHeads(_)
ParseHeads(hkeys) ==
  IF Len(hkeys) = 0 THEN <<>> ELSE LetterHead(Head(hkeys)) \o ParseHeads(Tail(hkeys))

\* CreateH2SpecWithStr(h2ja3SpecStr) where int has intSize bits: the named
\* results (h2ja3Spec, err) at the return
CreateH2SpecWithStr(h2ja3SpecStr, intSize) ==
  LET tokens == Split(h2ja3SpecStr, "|")
  IN IF Len(tokens) # 4 THEN [spec |-> NoH2Spec, err |-> "h2 spec format error"]
     ELSE LET st == ParseSettings(Split(tokens[1], ","), 1, <<>>, intSize)
              connFlow == Atoi(tokens[2], intSize)
              s1 == [NoH2Spec EXCEPT !.InitialSetting = st.list]
          IN IF st.err # "nil" THEN [spec |-> s1, err |-> st.err]
             ELSE IF connFlow.err # "nil" THEN [spec |-> s1, err |-> connFlow.err]
             ELSE [spec |-> [s1 EXCEPT !.ConnFlow = ToUint32(connFlow),
                                       !.OrderHeaders = ParseHeads(Split(tokens[4], ","))],
                   err |-> "nil"]


(* ------------------ the codec functions as functions ------------------- *)
MaxSettings == 2    \* longest settings list of the enumerated inputs
MaxHeaders == 5     \* longest header list of the enumerated inputs
MaxLetters == 3     \* most letters in the fourth field of the enumerated inputs

\* strconv.IntSize: the builds have a 32-bit or a 64-bit int
IntSizes == {32, 64}

Max32 == <<Uint16 - 1, Uint16 - 1>>

PseudoHeaders == <<Method, Authority, Scheme, Path>>

HeaderNames == {Method, Authority, Scheme, <<":", "P", "a", "t", "h">>, <<"H", "o", "s", "t">>}

SomeSettings == {[Id |-> i, Val |-> v] : i \in {1, Uint16 - 1}, v \in {U32(0), U32(65536), Max32}}

SomeFlows == {U32(0), U32(15663105), Max32}

\* the H2Spec values Fp is applied to
H2Specs ==
  {DefaultH2Spec}
    \cup {[DefaultH2Spec EXCEPT !.OrderHeaders = h] : h \in SeqsUpTo(HeaderNames, MaxHeaders)}
    \cup {[DefaultH2Spec EXCEPT !.InitialSetting = l, !.ConnFlow = f, !.OrderHeaders = PseudoHeaders] :
            l \in SeqsUpTo(SomeSettings, MaxSettings), f \in SomeFlows}

\* what a caller may write where a number is expected
NumTokens ==
  {<<"0">>,
   <<"1">>,
   <<"6", "5", "5", "3", "5">>,
   <<"6", "5", "5", "3", "6">>,
   <<"7", "0", "0", "0", "0">>,
   <<"2", "1", "4", "7", "4", "8", "3", "6", "4", "7">>,
   <<"2", "1", "4", "7", "4", "8", "3", "6", "4", "8">>,
   <<"4", "2", "9", "4", "9", "6", "7", "2", "9", "5">>,
   <<"4", "2", "9", "4", "9", "6", "7", "2", "9", "6">>,
   <<"4", "2", "9", "4", "9", "6", "7", "2", "9", "7">>,
   <<"9", "2", "2", "3", "3", "7", "2", "0", "3", "6", "8", "5", "4", "7", "7", "5", "8", "0", "7">>,
   <<"9", "2", "2", "3", "3", "7", "2", "0", "3", "6", "8", "5", "4", "7", "7", "5", "8", "0", "8">>,
   <<"1", "8", "4", "4", "6", "7", "4", "4", "0", "7", "3", "7", "0", "9", "5", "5", "1", "6", "1", "6">>,
   <<"9", "9", "9", "9", "9", "9", "9", "9", "9", "9", "9", "9", "9", "9", "9", "9", "9", "9", "9", "9">>,
   <<"-", "1">>,
   <<"-", "6", "5", "5", "3", "6">>,
   <<"-", "2", "1", "4", "7", "4", "8", "3", "6", "4", "8">>,
   <<"-", "2", "1", "4", "7", "4", "8", "3", "6", "4", "9">>,
   <<"-", "9", "2", "2", "3", "3", "7", "2", "0", "3", "6", "8", "5", "4", "7", "7", "5", "8", "0", "8">>,
   <<"-", "9", "2", "2", "3", "3", "7", "2", "0", "3", "6", "8", "5", "4", "7", "7", "5", "8", "0", "9">>,
   <<"+", "7">>,
   <<"0", "0", "7">>,
   <<>>,
   <<"-">>,
   <<"x">>,
   <<"1", "x">>,
   <<"1", ".", "5">>}

SettingTokens ==
  {<<"1", ":", "6", "5", "5", "3", "6">>,
   <<"2", ":", "0">>,
   <<"-", "1", ":", "7">>,
   <<"7", "0", "0", "0", "0", ":", "-", "1">>,
   <<"1", ":", "4", "2", "9", "4", "9", "6", "7", "2", "9", "6">>,
   <<"1">>,
   <<"1", ":", "2", ":", "3">>,
   <<"x", ":", "1">>,
   <<"1", ":">>,
   <<"+", "3", ":", "0", "0", "7">>}

SettingsFields ==
  {Join(l, ",") : l \in SeqsUpTo(SettingTokens, MaxSettings)}
    \cup {k \o <<":">> \o v : k \in NumTokens, v \in NumTokens}

ThirdFields == {<<"0">>, <<>>, <<"x">>, <<"1", ":", "2">>, <<"a", ",", "b">>}

LetterFields ==
  {Join(l, ",") : l \in SeqsUpTo({<<"m">>, <<"a">>, <<"s">>, <<"p">>, <<"x">>, <<"M">>, <<>>}, MaxLetters)}

Example == <<"1", ":", "6", "5", "5", "3", "6", ",", "2", ":", "0", ",", "4", ":", "6", "2", "9", "1", "4", "5", "6", ",", "6", ":", "2", "6", "2", "1", "4", "4", "|", "1", "5", "6", "6", "3", "1", "0", "5", "|", "0", "|", "m", ",", "a", ",", "s", ",", "p">>

GoodSettings == <<"1", ":", "6", "5", "5", "3", "6", ",", "2", ":", "0">>

GoodFlow == <<"1", "5", "6", "6", "3", "1", "0", "5">>

GoodLetters == <<"m", ",", "a", ",", "s", ",", "p">>

\* the strings CreateH2SpecWithStr is applied to
H2Strings ==
  {Example}
    \cup {Join(<<f1, GoodFlow, <<"0">>, GoodLetters>>, "|") : f1 \in SettingsFields}
    \cup {Join(<<GoodSettings, f2, <<"0">>, GoodLetters>>, "|") : f2 \in NumTokens}
    \cup {Join(<<GoodSettings, GoodFlow, f3, f4>>, "|") : f3 \in ThirdFields, f4 \in LetterFields}
    \cup {Join(SubSeq(<<GoodSettings, GoodFlow, <<"0">>, GoodLetters, <<"0">>, <<>>>>, 1, n), "|") : n \in {0, 1, 2, 3, 5, 6}}

CodecCalls ==
  {[fn |-> "Fp", obj |-> o, intSize |-> b] : o \in H2Specs, b \in IntSizes}
    \cup {[fn |-> "CreateH2SpecWithStr", h2ja3SpecStr |-> str, intSize |-> b] : str \in H2Strings, b \in IntSizes}

InitCodec == ClientIdle /\ call \in CodecCalls /\ Unapplied

\* obj.Fp()
Encode ==
  /\ call.fn = "Fp"
  /\ stage = 0
  /\ fp' = Fp(call.obj)
  /\ stage' = 1
  /\ UNCHANGED <<call, alpn, h2ja3Spec, fp2, client>>

\* CreateH2SpecWithStr of the caller's string
DecodeGiven ==
  /\ call.fn = "CreateH2SpecWithStr"
  /\ stage = 0
  /\ fp' = call.h2ja3SpecStr
  /\ h2ja3Spec' = CreateH2SpecWithStr(call.h2ja3SpecStr, call.intSize)
  /\ stage' = 2
  /\ UNCHANGED <<call, alpn, fp2, client>>

\* CreateH2SpecWithStr of the string Fp returned
DecodeEncoded ==
  /\ call.fn = "Fp"
  /\ stage = 1
  /\ h2ja3Spec' = CreateH2SpecWithStr(fp, call.intSize)
  /\ stage' = 2
  /\ UNCHANGED <<call, alpn, fp, fp2, client>>

\* Fp of the H2Spec CreateH2SpecWithStr returned without error
Reencode ==
  /\ call.fn \in {"Fp", "CreateH2SpecWithStr"}
  /\ stage = 2
  /\ h2ja3Spec.err = "nil"
  /\ fp2' = Fp(h2ja3Spec.spec)
  /\ stage' = 3
  /\ UNCHANGED <<call, alpn, fp, h2ja3Spec, client>>

NextCodec == Encode \/ DecodeGiven \/ DecodeEncoded \/ Reencode

SpecCodec == InitCodec /\ [][NextCodec]_vars


(* ---------------------- properties of the codec ------------------------ *)
Encoded == call.fn = "Fp" /\ stage >= 1

Decoded == call.fn \in {"Fp", "CreateH2SpecWithStr"} /\ stage >= 2

DecodedGiven == call.fn = "CreateH2SpecWithStr" /\ stage >= 2

\* C14: string round trip.  For every H2Spec P (any settings list, the empty
\* one included, any flow value, any header list), CreateH2SpecWithStr of
\* P.Fp() succeeds, and Fp of its result is the string P.Fp() again.
C14_StringRoundTrip ==
  (call.fn = "Fp" /\ stage >= 2) =>
    /\ h2ja3Spec.err = "nil"
    /\ stage = 3 => fp2 = fp

\* the pseudo-headers of a header list, in the order of the list
PseudoOf(headers) == SelectSeq(headers, LAMBDA h : h \in Range(PseudoHeaders))

\* C15: value round trip on the defaults.  CreateH2SpecWithStr of
\* DefaultH2Spec().Fp() succeeds and yields the same five settings in the
\* same order, the connection flow 15663105, and the pseudo-headers
\* :method, :authority, :scheme, :path in the order DefaultH2Spec has them.
C15_DefaultRoundTrip ==
  (call.fn = "Fp" /\ call.obj = DefaultH2Spec /\ stage >= 2) =>
    /\ h2ja3Spec.err = "nil"
    /\ Len(h2ja3Spec.spec.InitialSetting) = 5
    /\ h2ja3Spec.spec.InitialSetting = DefaultH2Spec.InitialSetting
    /\ h2ja3Spec.spec.ConnFlow = U32(15663105)
    /\ h2ja3Spec.spec.OrderHeaders = PseudoOf(DefaultH2Spec.OrderHeaders)
    /\ h2ja3Spec.spec.OrderHeaders = <<Method, Authority, Scheme, Path>>

C15_Witness ==
  /\ call.fn = "Fp" /\ call.obj = DefaultH2Spec /\ stage = 3
  /\ fp = <<"1", ":", "6", "5", "5", "3", "6", ",", "2", ":", "0", ",", "3", ":", "1", "0", "0", "0", ",", "4", ":", "6", "2", "9", "1", "4", "5", "6", ",", "6", ":", "2", "6", "2", "1", "4", "4", "|", "1", "5", "6", "6", "3", "1", "0", "5", "|", "0", "|", "m", ",", "a", ",", "s", ",", "p">>
  /\ h2ja3Spec.spec.InitialSetting[4] = [Id |-> 4, Val |-> <<0, 96>>]
  /\ h2ja3Spec.spec.ConnFlow = <<1, 239>>
  /\ fp2 = fp

\* the positions of the character sep in the string str
Positions(str, sep) == {i \in 1..Len(str) : str[i] = sep}

\* the position of the k-th sep of str
NthPos(str, sep, k) ==
  CHOOSE i \in Positions(str, sep) : Cardinality({j \in Positions(str, sep) : j <= i}) = k

\* the k-th of the pieces the character sep cuts str into
Piece(str, sep, k) ==
  SubSeq(str,
         IF k = 1 THEN 1 ELSE NthPos(str, sep, k - 1) + 1,
         IF k > Cardinality(Positions(str, sep)) THEN Len(str) ELSE NthPos(str, sep, k) - 1)

NPieces(str, sep) == Cardinality(Positions(str, sep)) + 1

Pieces(str, sep) == [k \in 1..NPieces(str, sep) |-> Piece(str, sep, k)]

\* the letters of a header-letters field
LettersOf(field) == IF Len(field) = 0 THEN <<>> ELSE Pieces(field, ",")

\* the code of a header name that is a pseudo-header whatever its casing
CodeOf(head) ==
  LET h == ToLower(head)
  IN IF h = Method THEN <<"m">> ELSE IF h = Authority THEN <<"a">>
     ELSE IF h = Scheme THEN <<"s">> ELSE <<"p">>

IsPseudo(head) == ToLower(head) \in Range(PseudoHeaders)

\* the codes of the first n pseudo-headers of a header list
FirstCodes(headers, n) ==
  LET ps == SelectSeq(headers, IsPseudo)
  IN [i \in 1..(IF Len(ps) < n THEN Len(ps) ELSE n) |-> CodeOf(ps[i])]

\* C16: the header-letters field of Fp holds at most four letters: the codes
\* m/a/s/p of the first four entries of the header list that match :method,
\* :authority, :scheme, :path case-insensitively, in list order.
C16_FirstFourLetters ==
  Encoded =>
    LET letters == LettersOf(Piece(fp, "|", 4))
    IN /\ Len(letters) <= 4
       /\ letters = FirstCodes(call.obj.OrderHeaders, 4)

\* optional sign, then one digit at least and digits only
Unsigned(tok) == IF Len(tok) > 0 /\ tok[1] \in {"+", "-"} THEN Tail(tok) ELSE tok

IsInteger(tok) == Len(Unsigned(tok)) > 0 /\ \A i \in 1..Len(Unsigned(tok)) : IsDigit(Unsigned(tok)[i])

\* the digits of the magnitude without leading zeros (none for zero)
Magnitude(tok) ==
  LET d == Unsigned(tok)
      nz == {i \in 1..Len(d) : d[i] # "0"}
  IN IF nz = {} THEN <<>> ELSE SubSeq(d, CHOOSE i \in nz : \A j \in nz : i <= j, Len(d))

\* a < b for magnitudes written without leading zeros
DecLess(a, b) ==
  \/ Len(a) < Len(b)
  \/ /\ Len(a) = Len(b)
     /\ \E i \in 1..Len(a) : /\ DigitVal(a[i]) < DigitVal(b[i])
                             /\ \A j \in 1..(i - 1) : a[j] = b[j]

Negative(tok) == Len(tok) > 0 /\ tok[1] = "-" /\ Magnitude(tok) # <<>>

\* 2^(intSize-1) in decimal
IntLimit(intSize) ==
  IF intSize = 64 THEN <<"9", "2", "2", "3", "3", "7", "2", "0", "3", "6", "8", "5", "4", "7", "7", "5", "8", "0", "8">>
  ELSE <<"2", "1", "4", "7", "4", "8", "3", "6", "4", "8">>

\* the integer written in tok is a value of an int of intSize bits
FitsInt(tok, intSize) ==
  \/ DecLess(Magnitude(tok), IntLimit(intSize))
  \/ Negative(tok) /\ Magnitude(tok) = IntLimit(intSize)

\* the settings tokens of a fingerprint string of four fields
TokensOf(str) == Pieces(Piece(str, "|", 1), ",")

\* a settings token of two components that are integers
TwoIntegers(tok) ==
  /\ NPieces(tok, ":") = 2
  /\ IsInteger(Piece(tok, ":", 1))
  /\ IsInteger(Piece(tok, ":", 2))

TokenFits(tok, intSize) == FitsInt(Piece(tok, ":", 1), intSize) /\ FitsInt(Piece(tok, ":", 2), intSize)

\* the names of the known letters of a field, in order
KnownHeads(field) ==
  LET known == SelectSeq(LettersOf(field), LAMBDA l : l \in {<<"m">>, <<"a">>, <<"s">>, <<"p">>})
  IN [i \in 1..Len(known) |->
        IF known[i] = <<"m">> THEN Method ELSE IF known[i] = <<"a">> THEN Authority
        ELSE IF known[i] = <<"s">> THEN Scheme ELSE Path]

\* C17: CreateH2SpecWithStr returns an error for every string that '|' does
\* not cut into exactly four fields, for every settings token that is not
\* two ':'-separated integers, and for a flow field that is not an integer;
\* when the first two fields are well formed it succeeds whatever the third
\* and fourth fields hold, keeping the known letters in order and skipping
\* the others.
C17_Validates ==
  DecodedGiven =>
    LET str == call.h2ja3SpecStr
        toks == TokensOf(str)
        flow == Piece(str, "|", 2)
    IN /\ NPieces(str, "|") # 4 => h2ja3Spec.err = "h2 spec format error"
       /\ (NPieces(str, "|") = 4 /\ \E i \in 1..Len(toks) : ~TwoIntegers(toks[i]))
            => h2ja3Spec.err # "nil"
       /\ (NPieces(str, "|") = 4 /\ ~IsInteger(flow)) => h2ja3Spec.err # "nil"
       /\ ( /\ NPieces(str, "|") = 4
            /\ \A i \in 1..Len(toks) : TwoIntegers(toks[i]) /\ TokenFits(toks[i], call.intSize)
            /\ IsInteger(flow) /\ FitsInt(flow, call.intSize) )
            => /\ h2ja3Spec.err = "nil"
               /\ h2ja3Spec.spec.OrderHeaders = KnownHeads(Piece(str, "|", 4))

C17_Witness ==
  /\ DecodedGiven
  /\ call.h2ja3SpecStr = <<"1", ":", "6", "5", "5", "3", "6", ",", "2", ":", "0", "|", "1", "5", "6", "6", "3", "1", "0", "5", "|", "a", ",", "b", "|", "m", ",", "x", ",", "p">>
  /\ h2ja3Spec.err = "nil"
  /\ h2ja3Spec.spec.OrderHeaders = <<Method, Path>>
  /\ Len(h2ja3Spec.spec.InitialSetting) = 2


RECURSIVE Mod16(_, _, _)
\* the number written by the digits d, modulo 2^16
Mod16(d, i, acc) ==
  IF i > Len(d) THEN acc ELSE Mod16(d, i + 1, (acc * 10 + DigitVal(d[i])) % Uint16)

RECURSIVE Mod32(_, _, _)
\* the number written by the digits d, modulo 2^32, as two limbs
Mod32(d, i, acc) ==
  IF i > Len(d) THEN acc
  ELSE LET lo == acc[1] * 10 + DigitVal(d[i])
       IN Mod32(d, i + 1, <<lo % Uint16, (acc[2] * 10 + (lo \div Uint16)) % Uint16>>)

\* a + b modulo 2^32
Add32(a, b) == <<(a[1] + b[1]) % Uint16, (a[2] + b[2] + ((a[1] + b[1]) \div Uint16)) % Uint16>>

\* stored is the integer written in tok reduced modulo 2^16
Reduced16(stored, tok) ==
  IF Negative(tok) THEN (stored + Mod16(Unsigned(tok), 1, 0)) % Uint16 = 0
  ELSE stored = Mod16(Unsigned(tok), 1, 0)

\* stored is the integer written in tok reduced modulo 2^32
Reduced32(stored, tok) ==
  IF Negative(tok) THEN Add32(stored, Mod32(Unsigned(tok), 1, <<0, 0>>)) = <<0, 0>>
  ELSE stored = Mod32(Unsigned(tok), 1, <<0, 0>>)

\* the integer written in tok is negative or does not fit the field
Outside16(tok) == Negative(tok) \/ ~DecLess(Magnitude(tok), <<"6", "5", "5", "3", "6">>)

Outside32(tok) == Negative(tok) \/ ~DecLess(Magnitude(tok), <<"4", "2", "9", "4", "9", "6", "7", "2", "9", "6">>)

\* the string has four fields, settings tokens of two integers and an
\* integer flow
AllIntegers(str) ==
  /\ NPieces(str, "|") = 4
  /\ \A i \in 1..Len(TokensOf(str)) : TwoIntegers(TokensOf(str)[i])
  /\ IsInteger(Piece(str, "|", 2))

\* every integer of the string is a value of an int of intSize bits
AllFit(str, intSize) ==
  /\ \A i \in 1..Len(TokensOf(str)) : TokenFits(TokensOf(str)[i], intSize)
  /\ FitsInt(Piece(str, "|", 2), intSize)

\* some integer of the string is negative or above the width of its field
SomeOutside(str) ==
  \/ \E i \in 1..Len(TokensOf(str)) :
       \/ Outside16(Piece(TokensOf(str)[i], ":", 1))
       \/ Outside32(Piece(TokensOf(str)[i], ":", 2))
  \/ Outside32(Piece(str, "|", 2))

\* the decoder stored every integer of the string reduced modulo the width
\* of its field, and a written integer outside the width is not what the
\* stored value prints as
Narrowed(str) ==
  LET toks == TokensOf(str)
      flow == Piece(str, "|", 2)
      set == h2ja3Spec.spec.InitialSetting
  IN /\ Len(set) = Len(toks)
     /\ \A i \in 1..Len(toks) :
          /\ Reduced16(set[i].Id, Piece(toks[i], ":", 1))
          /\ Reduced32(set[i].Val, Piece(toks[i], ":", 2))
          /\ Outside16(Piece(toks[i], ":", 1)) => FormatUint16(set[i].Id) # Piece(toks[i], ":", 1)
          /\ Outside32(Piece(toks[i], ":", 2)) => FormatUint32(set[i].Val) # Piece(toks[i], ":", 2)
     /\ Reduced32(h2ja3Spec.spec.ConnFlow, flow)
     /\ Outside32(flow) => FormatUint32(h2ja3Spec.spec.ConnFlow) # flow

\* C20 as stated: CreateH2SpecWithStr accepts any decimal integer component
\* without error, negative ones and ones above the field width included, and
\* stores it reduced modulo the width (id mod 2^16, value and flow mod 2^32);
\* with such a component Fp of the result differs from the input string.
C20_AnyIntegerNarrowed ==
  (DecodedGiven /\ AllIntegers(call.h2ja3SpecStr)) =>
    /\ h2ja3Spec.err = "nil"
    /\ Narrowed(call.h2ja3SpecStr)
    /\ (stage = 3 /\ SomeOutside(call.h2ja3SpecStr)) => fp2 # fp

\* C20, amended: the same for every decimal integer component that is a
\* value of the platform's int (strconv.Atoi reports the others as out of
\* range).
C20_IntNarrowed ==
  (DecodedGiven /\ AllIntegers(call.h2ja3SpecStr) /\ AllFit(call.h2ja3SpecStr, call.intSize)) =>
    /\ h2ja3Spec.err = "nil"
    /\ Narrowed(call.h2ja3SpecStr)
    /\ (stage = 3 /\ SomeOutside(call.h2ja3SpecStr)) => fp2 # fp

C20_Witness ==
  /\ DecodedGiven /\ stage = 3 /\ call.intSize = 64
  /\ call.h2ja3SpecStr = <<"7", "0", "0", "0", "0", ":", "-", "1", "|", "1", "5", "6", "6", "3", "1", "0", "5", "|", "0", "|", "m", ",", "a", ",", "s", ",", "p">>
  /\ h2ja3Spec.spec.InitialSetting = <<[Id |-> 4464, Val |-> Max32]>>
  /\ fp2 = <<"4", "4", "6", "4", ":", "4", "2", "9", "4", "9", "6", "7", "2", "9", "5", "|", "1", "5", "6", "6", "3", "1", "0", "5", "|", "0", "|", "m", ",", "a", ",", "s", ",", "p">>


=============================================================================
